---- MODULE Spec2Model ----
(***************************************************************************)
(* A model of twinmatrix.util.geojson (extension.py): the GeoJSONData      *)
(* loader with its bounds fold, the ear-clipping triangulator, and the     *)
(* import handler that writes meshes and a root transform to a USD stage.  *)
(*                                                                         *)
(* Points are triples <<x, y, z>> of integers (y = 0 on the ground plane). *)
(* Python's 0-based indices are kept as values: the triangle index lists   *)
(* hold 0-based indices, and vertex i of a sequence v is v[i + 1].         *)
(***************************************************************************)
EXTENDS Integers, Sequences, FiniteSets, TLC

VARIABLES
    features,       \* GeoJSONData.features
    bounds,         \* GeoJSONData.bounds: <<>> is None, else <<min, max>>
    status,         \* _status_label.text
    info,           \* the three labels of the information frame
    stageOpen,      \* whether omni.usd.get_context().get_stage() gives a stage
    stage,          \* the USD stage: root Xform, its xform ops, the mesh prims
    lastCall,       \* the last call made, its input class and how it ended
    points,         \* the ring handed to _triangulate_polygon
    triDone,        \* whether _triangulate_polygon has returned
    face_indices    \* what _triangulate_polygon returned

vars == <<features, bounds, status, info, stageOpen, stage, lastCall,
          points, triDone, face_indices>>

----------------------------------------------------------------------------
(* Bounds of the model *)

\* ring coordinates handed to the triangulator lie in 0..MaxX and 0..MaxZ
MaxX == 2
MaxZ == 1
\* rings handed to the triangulator have at most MaxLen distinct-position
\* points, plus the closing repeat of the first point when the ring is closed
MaxLen == 4
\* a FeatureCollection holds at most MaxFeatures features
MaxFeatures == 2

----------------------------------------------------------------------------
(* Small helpers *)

Min2(a, b) == IF a <= b THEN a ELSE b
Max2(a, b) == IF a >= b THEN a ELSE b

\* range(n) as a sequence of 0-based indices
Range0(n) == [k \in 1..n |-> k - 1]

\* list.index(i): 0-based position of i in the sequence s
IndexOf(s, i) == (CHOOSE k \in 1..Len(s) : s[k] = i) - 1

\* list.remove(i) on a list without repeats
RemoveVal(s, i) ==
    LET k == IndexOf(s, i) + 1
    IN  SubSeq(s, 1, k - 1) \o SubSeq(s, k + 1, Len(s))

----------------------------------------------------------------------------
(* _point_in_triangle *)

Sign(p1, p2, p3) ==
    (p1[1] - p3[1]) * (p2[3] - p3[3]) - (p2[1] - p3[1]) * (p1[3] - p3[3])

PointInTriangle(p, a, b, c) ==
    LET d1 == Sign(p, a, b)
        d2 == Sign(p, b, c)
        d3 == Sign(p, c, a)
        has_neg == (d1 < 0) \/ (d2 < 0) \/ (d3 < 0)
        has_pos == (d1 > 0) \/ (d2 > 0) \/ (d3 > 0)
    IN  ~(has_neg /\ has_pos)

----------------------------------------------------------------------------
(* _triangulate_polygon *)

\* Y component of Gf.Cross(p2 - p1, p3 - p2)
CrossY(p1, p2, p3) ==
    (p2[3] - p1[3]) * (p3[1] - p2[1]) - (p2[1] - p1[1]) * (p3[3] - p2[3])

\* the ring after "ensure polygon is closed"
ClosedRing(pts) ==
    IF pts[1] # pts[Len(pts)] THEN Append(pts, pts[1]) ELSE pts

\* vertices = points[:-1], taken after the closing point was appended
Vertices(pts) ==
    LET c == ClosedRing(pts) IN SubSeq(c, 1, Len(c) - 1)

PrevIdx(remaining, i) ==
    remaining[((IndexOf(remaining, i) - 1) % Len(remaining)) + 1]

NextIdx(remaining, i) ==
    remaining[((IndexOf(remaining, i) + 1) % Len(remaining)) + 1]

\* the orientation test with the sign of the comparison slipped
TurnsDown(p1, p2, p3) == CrossY(p1, p2, p3) < 0

\* the orientation test of is_valid_ear: the candidate must turn up (Y > 0)
TurnsUp(p1, p2, p3) == CrossY(p1, p2, p3) > 0

IsValidEar(vertices, remaining, i) ==
    IF Len(remaining) < 3 THEN FALSE
    ELSE
        LET prev_idx == PrevIdx(remaining, i)
            next_idx == NextIdx(remaining, i)
            p1 == vertices[prev_idx + 1]
            p2 == vertices[i + 1]
            p3 == vertices[next_idx + 1]
        IN  /\ TurnsUp(p1, p2, p3)
            /\ \A k \in 1..Len(remaining) :
                  LET j == remaining[k] IN
                  j \in {prev_idx, i, next_idx}
                      \/ ~PointInTriangle(vertices[j + 1], p1, p2, p3)

\* the triple the main loop emits for ear i
EarTriangle(remaining, i) ==
    <<PrevIdx(remaining, i), i, NextIdx(remaining, i)>>

\* the final step without its test that exactly three vertices remain
FinalTriangleUnchecked(remaining, indices) == indices \o remaining

\* "Add final triangle"
FinalTriangle(remaining, indices) ==
    IF Len(remaining) = 3 THEN indices \o remaining ELSE indices

\* the main triangulation loop followed by the final triangle
RECURSIVE EarLoop(_, _, _)
EarLoop(vertices, remaining, indices) ==
    IF Len(remaining) > 3
    THEN
        LET ears == {k \in 1..Len(remaining) :
                        IsValidEar(vertices, remaining, remaining[k])}
        IN  IF ears = {}
            THEN FinalTriangle(remaining, indices)
            ELSE
                LET k == CHOOSE e \in ears : \A f \in ears : e <= f
                    i == remaining[k]
                IN  EarLoop(vertices, RemoveVal(remaining, i),
                            indices \o EarTriangle(remaining, i))
    ELSE FinalTriangle(remaining, indices)

TriangulatePolygon(pts) ==
    IF Len(pts) < 3 THEN <<>>
    ELSE
        LET vertices == Vertices(pts)
        IN  IF Len(vertices) < 3 THEN <<>>
            ELSE EarLoop(vertices, Range0(Len(vertices)), <<>>)

----------------------------------------------------------------------------
(* GeoJSON values                                                          *)
(*                                                                         *)
(* A feature is [hasGeometry, type, coordinates]. "coordinates" is always  *)
(* kept as a sequence of coordinate sequences, so that all features are    *)
(* values of one shape: a Point <<lon, lat>> is << <<lon, lat>> >> inside  *)
(* one group, a LineString is one group, a Polygon is its rings, and a     *)
(* MultiPolygon (never read by the code) keeps the rings of its first      *)
(* polygon. A coordinate is <<lon, lat>> in whole degrees.                 *)

Feature(t, c) == [hasGeometry |-> TRUE, type |-> t, coordinates |-> c]

\* a feature object without a "geometry" key
NoGeometry == [hasGeometry |-> FALSE, type |-> "", coordinates |-> <<>>]

UnitSquare    == Feature("Polygon",
                    << << <<0,0>>, <<1,0>>, <<1,1>>, <<0,1>>, <<0,0>> >> >>)
BigTriangle   == Feature("Polygon",
                    << << <<0,0>>, <<2,0>>, <<0,2>>, <<0,0>> >> >>)
CollinearRing == Feature("Polygon",
                    << << <<0,0>>, <<1,0>>, <<2,0>>, <<3,0>> >> >>)
TwoPointRing  == Feature("Polygon", << << <<0,0>>, <<1,1>> >> >>)
OnePointRing  == Feature("Polygon", << << <<1,1>> >> >>)
EmptyRing     == Feature("Polygon", << <<>> >>)
NoRings       == Feature("Polygon", <<>>)
APoint        == Feature("Point", << << <<1,2>> >> >>)
ALineString   == Feature("LineString", << << <<0,1>>, <<2,0>> >> >>)
AMultiPolygon == Feature("MultiPolygon",
                    << << <<0,0>>, <<1,0>>, <<1,1>>, <<0,0>> >> >>)

\* all sequences over S of length at most n
SeqsUpTo(S, n) == UNION {[1..k -> S] : k \in 0..n}

\* A file is missing, or holds text that is not JSON, or holds a JSON object:
\* its "type" ("" when absent), the value of its "features" key (<<>> when
\* absent) and the object itself read as a feature.
MissingFile == [kind |-> "missing", type |-> "", features |-> <<>>,
                self |-> NoGeometry]
BadJSONFile == [kind |-> "badjson", type |-> "", features |-> <<>>,
                self |-> NoGeometry]
JSONFile(t, fs, me) == [kind |-> "json", type |-> t, features |-> fs,
                        self |-> me]

FilesOver(catalog) ==
    {MissingFile, BadJSONFile}
    \cup {JSONFile("FeatureCollection", fs, NoGeometry) :
              fs \in SeqsUpTo(catalog, MaxFeatures)}
    \cup {JSONFile("Feature", <<>>, f) : f \in catalog}
    \cup {JSONFile(t, <<UnitSquare>>, UnitSquare) : t \in {"Circle", ""}}

----------------------------------------------------------------------------
(* GeoJSONData *)

\* float('inf'): larger than every coordinate of the model
Inf == 1000000

NoneBounds == <<>>

\* _get_feature_coordinates; raises KeyError when "geometry" is missing
GetFeatureCoordinates(feature) ==
    IF ~feature.hasGeometry THEN [raised |-> TRUE, coords |-> <<>>]
    ELSE [raised |-> FALSE,
          coords |->
            CASE feature.type = "Point" ->
                    <<feature.coordinates[1][1]>>
              [] feature.type = "LineString" ->
                    feature.coordinates[1]
              [] feature.type = "Polygon" ->
                    LET RECURSIVE Extend(_)
                        Extend(k) ==
                            IF k > Len(feature.coordinates) THEN <<>>
                            ELSE feature.coordinates[k] \o Extend(k + 1)
                    IN  Extend(1)
              [] OTHER -> <<>>]

\* the min/max fold of _calculate_bounds over one feature's coordinates
RECURSIVE FoldCoords(_, _, _)
FoldCoords(coords, k, acc) ==
    IF k > Len(coords) THEN acc
    ELSE FoldCoords(coords, k + 1,
            << <<Min2(acc[1][1], coords[k][1]), Min2(acc[1][2], coords[k][2])>>,
               <<Max2(acc[2][1], coords[k][1]), Max2(acc[2][2], coords[k][2])>> >>)

\* the loop of _calculate_bounds over the features from k on
RECURSIVE FoldFeatures(_, _, _)
FoldFeatures(fs, k, acc) ==
    IF k > Len(fs) THEN [raised |-> FALSE, bounds |-> acc]
    ELSE
        LET c == GetFeatureCoordinates(fs[k])
        IN  IF c.raised THEN [raised |-> TRUE, bounds |-> acc]
            ELSE FoldFeatures(fs, k + 1, FoldCoords(c.coords, 1, acc))

\* _calculate_bounds: the bounds it leaves behind, or raised (self.bounds
\* is assigned only after the loop has finished)
CalculateBounds(fs, old) ==
    IF fs = <<>> THEN [raised |-> FALSE, bounds |-> NoneBounds]
    ELSE
        LET r == FoldFeatures(fs, 1, << <<Inf, Inf>>, <<-Inf, -Inf>> >>)
        IN  IF r.raised THEN [raised |-> TRUE, bounds |-> old]
            ELSE r

ValidTypes == {"FeatureCollection", "Feature"}

\* the feature list load_from_file stores for a JSON object
LoadedFeatures(file) ==
    IF file.type = "Feature" THEN <<file.self>> ELSE file.features

\* how load_from_file classes its input before it stores anything
FileClass(file) ==
    CASE file.kind = "missing" -> "missing"
      [] file.kind = "badjson" -> "badjson"
      [] file.type \notin ValidTypes -> "unsupported"
      [] OTHER -> "supported"

\* load_from_file with the feature list stored before the type is validated
LoadFromFileStoresFirst(file, fs, bs) ==
    CASE file.kind = "missing" ->
            [features |-> fs, bounds |-> bs, ret |-> FALSE,
             outcome |-> "FileNotFoundError"]
      [] file.kind = "badjson" ->
            [features |-> fs, bounds |-> bs, ret |-> FALSE,
             outcome |-> "JSONDecodeError"]
      [] file.kind = "json" /\ file.type \notin ValidTypes ->
            [features |-> LoadedFeatures(file), bounds |-> bs, ret |-> FALSE,
             outcome |-> "ValueError"]
      [] OTHER ->
            LET new == LoadedFeatures(file)
                b == CalculateBounds(new, bs)
            IN  IF b.raised
                THEN [features |-> new, bounds |-> b.bounds, ret |-> FALSE,
                      outcome |-> "KeyError"]
                ELSE [features |-> new, bounds |-> b.bounds, ret |-> TRUE,
                      outcome |-> "loaded"]

\* load_from_file: the fields it leaves behind, what it returns and why
LoadFromFile(file, fs, bs) ==
    CASE file.kind = "missing" ->
            [features |-> fs, bounds |-> bs, ret |-> FALSE,
             outcome |-> "FileNotFoundError"]
      [] file.kind = "badjson" ->
            [features |-> fs, bounds |-> bs, ret |-> FALSE,
             outcome |-> "JSONDecodeError"]
      [] file.kind = "json" /\ file.type \notin ValidTypes ->
            [features |-> fs, bounds |-> bs, ret |-> FALSE,
             outcome |-> "ValueError"]
      [] OTHER ->
            LET new == LoadedFeatures(file)
                b == CalculateBounds(new, bs)
            IN  IF b.raised
                THEN [features |-> new, bounds |-> b.bounds, ret |-> FALSE,
                      outcome |-> "KeyError"]
                ELSE [features |-> new, bounds |-> b.bounds, ret |-> TRUE,
                      outcome |-> "loaded"]

----------------------------------------------------------------------------
(* _geo_to_cartesian, in whole kilometres                                  *)
(*                                                                         *)
(* x = a * radians(lon) is 111319 m per degree; z = -a * ln(...) is the    *)
(* ellipsoidal Mercator northing, negated, tabulated here for whole        *)
(* degrees of latitude 0..5 and rounded to kilometres like x.              *)

MetresPerDegree == 111319

LonKm(lon) == (MetresPerDegree * lon + 500) \div 1000

MercatorKm(lat) == IF lat = 0 THEN 0 ELSE <<111, 221, 332, 443, 554>>[lat]

GeoToCartesian(lon, lat) == <<LonKm(lon), 0, -MercatorKm(lat)>>

\* the loop that converts a ring to Y-up points
ProjectRing(ring) ==
    [k \in 1..Len(ring) |-> GeoToCartesian(ring[k][1], ring[k][2])]

----------------------------------------------------------------------------
(* Exact fractions <<numerator, denominator>> for the root transform; NaN  *)
(* is what (inf + -inf) / 2 gives when no coordinate was folded            *)

RECURSIVE GCD(_, _)
GCD(a, b) == IF b = 0 THEN a ELSE GCD(b, a % b)

Abs(n) == IF n < 0 THEN -n ELSE n

Frac(n, d) ==
    LET g == GCD(Abs(n), d) IN <<n \div g, d \div g>>

NaN == <<0, 0>>
Zero == <<0, 1>>

----------------------------------------------------------------------------
(* _create_stage_objects                                                   *)
(*                                                                         *)
(* The stage is what USD keeps between calls: Xform.Define and Mesh.Define *)
(* create the prim at a path or return the one already there, an op added  *)
(* to the root stays on it, and Create...Attr(value) sets the attribute.   *)
(* Nothing in the code removes a prim or an op.                            *)

\* the scene units the longer side of the data is scaled to
TargetExtent == 1000

\* first pass: the X/Z bounding box of the projected exterior rings, from
\* feature k on; raises IndexError on a Polygon with no ring
RECURSIVE FoldCartesian(_, _, _)
FoldCartesian(fs, k, acc) ==
    IF k > Len(fs) THEN [raised |-> FALSE, box |-> acc]
    ELSE IF fs[k].hasGeometry /\ fs[k].type = "Polygon"
    THEN IF fs[k].coordinates = <<>>
         THEN [raised |-> TRUE, box |-> acc]
         ELSE
            LET ring == ProjectRing(fs[k].coordinates[1])
                RECURSIVE Fold(_, _)
                Fold(j, b) ==
                    IF j > Len(ring) THEN b
                    ELSE Fold(j + 1,
                            [minX |-> Min2(b.minX, ring[j][1]),
                             minZ |-> Min2(b.minZ, ring[j][3]),
                             maxX |-> Max2(b.maxX, ring[j][1]),
                             maxZ |-> Max2(b.maxZ, ring[j][3])])
            IN  FoldCartesian(fs, k + 1, Fold(1, acc))
    ELSE FoldCartesian(fs, k + 1, acc)

EmptyBox == [minX |-> Inf, minZ |-> Inf, maxX |-> -Inf, maxZ |-> -Inf]

\* max(width, depth) of a box that holds at least one point
Extent(box) == Max2(box.maxX - box.minX, box.maxZ - box.minZ)

\* the translate and scale values computed from the box; raises
\* ZeroDivisionError when the box has no extent. A box nothing was folded
\* into has width = depth = -inf: the centre is NaN and the scale -0.0.
Normalization(box) ==
    IF box = EmptyBox
    THEN [raised |-> FALSE,
          ops |-> << <<NaN, Zero, NaN>>, <<Zero, Zero, Zero>> >>]
    ELSE IF Extent(box) = 0
    THEN [raised |-> TRUE, ops |-> <<>>]
    ELSE
        LET e == Extent(box)
            scale == Frac(TargetExtent, e)
            tx == Frac(-(box.minX + box.maxX) * TargetExtent, 2 * e)
            tz == Frac(-(box.minZ + box.maxZ) * TargetExtent, 2 * e)
        IN  [raised |-> FALSE,
             ops |-> << <<tx, Zero, tz>>, <<scale, scale, scale>> >>]

\* the ops of the root after "add the ops only if there are none yet"
SetRootTransform(oldOps, computed) ==
    IF oldOps = <<>> THEN computed ELSE oldOps

\* whether the second pass reaches Mesh.Define for this feature
MakesMeshPrim(feature) ==
    /\ feature.hasGeometry
    /\ feature.type = "Polygon"
    /\ Len(feature.coordinates[1]) >= 3

\* second pass, one feature: the mesh prim at that feature's path after it
EmitMesh(feature, old) ==
    IF ~MakesMeshPrim(feature) THEN old
    ELSE
        LET pts == ProjectRing(feature.coordinates[1])
            idx == TriangulatePolygon(pts)
        IN  IF idx # <<>>
            THEN [defined |-> TRUE,
                  points |-> pts,
                  faceVertexCounts |-> [k \in 1..(Len(idx) \div 3) |-> 3],
                  faceVertexIndices |-> idx,
                  normals |-> Len(pts)]
            ELSE [old EXCEPT !.defined = TRUE]

\* _create_stage_objects on an open stage: the stage it leaves behind, the
\* exception it ended with ("" when it returned) and the features (0-based)
\* for which it defined a mesh prim
CreateStageObjects(fs, st) ==
    LET rooted == [st EXCEPT !.root = TRUE]
        first == FoldCartesian(fs, 1, EmptyBox)
    IN  IF first.raised
        THEN [stage |-> rooted, raised |-> "IndexError", written |-> {}]
        ELSE
            LET n == Normalization(first.box)
            IN  IF n.raised
                THEN [stage |-> rooted, raised |-> "ZeroDivisionError",
                      written |-> {}]
                ELSE
                    [stage |->
                        [root |-> TRUE,
                         xformOps |-> SetRootTransform(st.xformOps, n.ops),
                         meshes |->
                            [k \in 1..Len(st.meshes) |->
                                IF k <= Len(fs)
                                THEN EmitMesh(fs[k], st.meshes[k])
                                ELSE st.meshes[k]]],
                     raised |-> "",
                     written |-> {k - 1 : k \in {j \in 1..Len(fs) :
                                                    MakesMeshPrim(fs[j])}}]

\* _update_info_display
UpdateInfoDisplay(fs, bs) ==
    [count |-> Len(fs),
     bounds |-> bs,
     types |-> {fs[k].type : k \in {j \in 1..Len(fs) : fs[j].hasGeometry}}]

----------------------------------------------------------------------------
(* Initial values *)

NoMesh == [defined |-> FALSE, points |-> <<>>, faceVertexCounts |-> <<>>,
           faceVertexIndices |-> <<>>, normals |-> 0]

EmptyStage == [root |-> FALSE, xformOps |-> <<>>,
               meshes |-> [k \in 1..MaxFeatures |-> NoMesh]]

NoCall == [op |-> "none", input |-> "none", outcome |-> "none",
           ret |-> "None", written |-> {}]

NoInfo == [count |-> 0, bounds |-> NoneBounds, types |-> {}]

InitObject ==
    /\ features = <<>>
    /\ bounds = NoneBounds
    /\ status = ""
    /\ info = NoInfo
    /\ stage = EmptyStage
    /\ lastCall = NoCall

InitNoRing ==
    /\ points = <<>>
    /\ triDone = FALSE
    /\ face_indices = <<>>

----------------------------------------------------------------------------
(* GeoJSONData on its own: any sequence of load_from_file calls *)

LoadCatalog == {APoint, ALineString, UnitSquare, AMultiPolygon, NoRings,
                NoGeometry}

LoadFiles == FilesOver(LoadCatalog)

Load(file) ==
    \E r \in {LoadFromFile(file, features, bounds)} :
        /\ features' = r.features
        /\ bounds' = r.bounds
        /\ lastCall' = [op |-> "load_from_file", input |-> FileClass(file),
                        outcome |-> r.outcome,
                        ret |-> IF r.ret THEN "True" ELSE "False",
                        written |-> {}]
        /\ UNCHANGED <<status, info, stageOpen, stage,
                       points, triDone, face_indices>>

InitLoad == InitObject /\ InitNoRing /\ stageOpen = FALSE

NextLoad == \E file \in LoadFiles : Load(file)

SpecLoad == InitLoad /\ [][NextLoad]_vars

----------------------------------------------------------------------------
(* The extension: any sequence of clicks on Import *)

ImportCatalog == {UnitSquare, BigTriangle, CollinearRing, TwoPointRing,
                  OnePointRing, EmptyRing}

ImportFiles == FilesOver(ImportCatalog)

\* _on_import. pathGiven: the path field is not empty; file: what is at that
\* path.
OnImport(pathGiven, file) ==
    IF ~pathGiven
    THEN
        /\ status' = "Please select a file first"
        /\ lastCall' = [op |-> "_on_import", input |-> "no path",
                        outcome |-> "no path", ret |-> "None",
                        written |-> {}]
        /\ UNCHANGED <<features, bounds, info, stage>>
    ELSE
        \E r \in {LoadFromFile(file, features, bounds)} :
            /\ features' = r.features
            /\ bounds' = r.bounds
            /\ IF ~r.ret
               THEN
                /\ status' = "Failed to load GeoJSON"
                /\ lastCall' = [op |-> "_on_import",
                                input |-> FileClass(file),
                                outcome |-> "load failed", ret |-> "None",
                                written |-> {}]
                /\ UNCHANGED <<info, stage>>
               ELSE
                /\ status' = "GeoJSON loaded successfully"
                /\ info' = UpdateInfoDisplay(r.features, r.bounds)
                /\ IF ~stageOpen
                   THEN
                    /\ lastCall' = [op |-> "_on_import",
                                    input |-> FileClass(file),
                                    outcome |-> "no stage", ret |-> "None",
                                    written |-> {}]
                    /\ UNCHANGED stage
                   ELSE
                    \E c \in {CreateStageObjects(r.features, stage)} :
                        /\ stage' = c.stage
                        /\ lastCall' =
                            [op |-> "_on_import",
                             input |-> FileClass(file),
                             outcome |-> IF c.raised = "" THEN "emitted"
                                         ELSE c.raised,
                             ret |-> "None",
                             written |-> c.written]

Import(pathGiven, file) ==
    /\ OnImport(pathGiven, file)
    /\ UNCHANGED <<stageOpen, points, triDone, face_indices>>

\* the session runs with a stage open, or with none
InitImport == InitObject /\ InitNoRing /\ stageOpen \in BOOLEAN

NextImport ==
    \/ Import(FALSE, MissingFile)
    \/ \E file \in ImportFiles : Import(TRUE, file)

SpecImport == InitImport /\ [][NextImport]_vars

----------------------------------------------------------------------------
(* The triangulator on its own: one call on any ring over the grid *)

GridPoints == {<<x, 0, z>> : x \in 0..MaxX, z \in 0..MaxZ}

\* Scenario A: the closed unit square, projected
ScenarioARing == ProjectRing(UnitSquare.coordinates[1])

\* the ring is any sequence of at most MaxLen grid points, as it is or with
\* its first point repeated at the end, or the ring of Scenario A
InitTri ==
    /\ InitObject
    /\ stageOpen = FALSE
    /\ \/ \E n \in 0..MaxLen : \E v \in [1..n -> GridPoints] :
            \E closing \in BOOLEAN :
                points = IF closing /\ n > 0 THEN Append(v, v[1]) ELSE v
       \/ points = ScenarioARing
    /\ triDone = FALSE
    /\ face_indices = <<>>

\* face_indices = self._triangulate_polygon(points[:])
Triangulate ==
    /\ ~triDone
    /\ triDone' = TRUE
    /\ face_indices' = TriangulatePolygon(points)
    /\ UNCHANGED <<features, bounds, status, info, stageOpen, stage,
                   lastCall, points>>

NextTri == Triangulate

SpecTri == InitTri /\ [][NextTri]_vars

----------------------------------------------------------------------------
(* Properties of GeoJSONData, checked under SpecLoad *)

\* C5: in every state reachable by load_from_file calls, bounds is None
\* exactly when the feature list is empty, and bounds is the value that
\* _calculate_bounds computes from the stored feature list.
C5_BoundsFollowFeatures ==
    /\ (bounds = NoneBounds) <=> (features = <<>>)
    /\ LET r == CalculateBounds(features, bounds)
       IN  ~r.raised /\ r.bounds = bounds

\* C6: whenever bounds is present, min.x <= max.x and min.y <= max.y.
C6_BoundsOrdered ==
    bounds # NoneBounds =>
        /\ bounds[1][1] <= bounds[2][1]
        /\ bounds[1][2] <= bounds[2][2]

LoaderLevelInputs == {"missing", "badjson", "unsupported"}

\* C7: a load_from_file call on a missing file, on text that is not JSON or
\* on an object of unsupported type returns False and leaves the feature
\* list and the bounds as they were before the call.
C7_LoaderErrorKeepsDocument ==
    [][(lastCall'.op = "load_from_file"
            /\ lastCall'.input \in LoaderLevelInputs)
        => /\ lastCall'.ret = "False"
           /\ features' = features
           /\ bounds' = bounds]_vars

\* C7 witness: a load of an unsupported type has failed on an object that
\* holds a document from an earlier load.
C7_Witness ==
    /\ lastCall.op = "load_from_file"
    /\ lastCall.input = "unsupported"
    /\ lastCall.ret = "False"
    /\ features # <<>>
    /\ bounds # NoneBounds

----------------------------------------------------------------------------
(* Properties of import, checked under SpecImport *)

\* the last call was an import whose load succeeded and whose
\* _create_stage_objects ran to its end on an open stage
Emitted == lastCall.op = "_on_import" /\ lastCall.outcome = "emitted"

\* the mesh one emission into an empty scene leaves at feature k's path
FreshMesh(fs, k) ==
    IF k <= Len(fs) THEN EmitMesh(fs[k], NoMesh) ELSE NoMesh

\* C8: after every successful import, the mesh prims under /World/GeoJSON,
\* with their points and triangle indices, are exactly those emitted for the
\* document loaded by that import; nothing is left from an earlier import.
C8_ImportReplaces ==
    Emitted =>
        \A k \in 1..Len(stage.meshes) :
            stage.meshes[k] = FreshMesh(features, k)

\* C9: after every successful import, the translate and scale ops of the
\* root are the ones computed from the projected exterior-ring bounds of the
\* document loaded by that import.
C9_TransformFollowsDocument ==
    Emitted =>
        stage.xformOps =
            Normalization(FoldCartesian(features, 1, EmptyBox).box).ops

ShortRing(feature) ==
    /\ feature.hasGeometry
    /\ feature.type = "Polygon"
    /\ feature.coordinates # <<>>
    /\ Len(feature.coordinates[1]) < 3

\* C10: when the loaded document holds a Polygon whose exterior ring has
\* fewer than 3 points, _create_stage_objects runs to its end without
\* raising and defines no mesh for that feature.
C10_ShortRingSkipped ==
    (/\ lastCall.op = "_on_import"
     /\ lastCall.outcome \notin {"no path", "load failed", "no stage"}
     /\ \E k \in 1..Len(features) : ShortRing(features[k]))
    => /\ lastCall.outcome = "emitted"
       /\ \A k \in 1..Len(features) :
             ShortRing(features[k]) => (k - 1) \notin lastCall.written

----------------------------------------------------------------------------
(* Properties of _triangulate_polygon, checked under SpecTri *)

\* the number of working vertices of a ring (0 for the empty ring)
WorkingCount(pts) == IF pts = <<>> THEN 0 ELSE Len(Vertices(pts))

\* the k-th (1-based) triangle of an index list, as three points of pts
Corner(pts, idx, k, c) == pts[idx[3 * (k - 1) + c] + 1]

\* twice the signed X/Z area of the k-th triangle, positive when it faces up
TriangleArea2(pts, idx, k) ==
    CrossY(Corner(pts, idx, k, 1), Corner(pts, idx, k, 2),
           Corner(pts, idx, k, 3))

\* C1: the returned list has a length that is a multiple of 3 and each of
\* its values is an index into the ring as supplied, and into the working
\* vertices left after the closing duplicate is dropped.
C1_IndicesValid ==
    triDone =>
        /\ Len(face_indices) % 3 = 0
        /\ \A k \in 1..Len(face_indices) :
              /\ 0 <= face_indices[k]
              /\ face_indices[k] < Len(points)
              /\ face_indices[k] < WorkingCount(points)

\* C1 witness: a closed ring of five points was cut into two triangles.
C1_Witness ==
    /\ triDone
    /\ Len(points) = 5
    /\ points[1] = points[5]
    /\ Len(face_indices) = 6

ConvexCCW(v) ==
    /\ Len(v) >= 3
    /\ \A i \in 1..Len(v) :
          LET j == (i % Len(v)) + 1
          IN  \A k \in 1..Len(v) :
                 k \in {i, j} \/ CrossY(v[i], v[j], v[k]) > 0

\* twice the X/Z area of the polygon v (shoelace sum), positive when v is
\* in the accepted orientation
RECURSIVE Shoelace(_, _)
Shoelace(v, i) ==
    IF i > Len(v) THEN 0
    ELSE LET j == (i % Len(v)) + 1
         IN  (v[i][3] * v[j][1] - v[i][1] * v[j][3]) + Shoelace(v, i + 1)

RECURSIVE SumTriangleArea2(_, _, _)
SumTriangleArea2(pts, idx, k) ==
    IF k > Len(idx) \div 3 THEN 0
    ELSE TriangleArea2(pts, idx, k) + SumTriangleArea2(pts, idx, k + 1)

\* C3: a convex polygon of n >= 3 vertices in the accepted orientation,
\* closed or not, gives exactly n - 2 triangles whose areas sum to the area
\* of the polygon; the closed unit square of Scenario A gives 2 triangles
\* that use all 4 of its distinct points.
C3_ConvexGivesFan ==
    (triDone /\ Len(points) >= 3 /\ ConvexCCW(Vertices(points))) =>
        /\ Len(face_indices) = 3 * (Len(Vertices(points)) - 2)
        /\ SumTriangleArea2(points, face_indices, 1)
              = Shoelace(Vertices(points), 1)
        /\ points = ScenarioARing =>
              /\ Len(face_indices) = 6
              /\ {face_indices[k] : k \in 1..Len(face_indices)} = 0..3

\* C3 witness: a convex quadrilateral from the grid, closed by a repeat of
\* its first point, was cut into 2 triangles.
C3_Witness ==
    /\ triDone
    /\ Len(points) = 5
    /\ points # ScenarioARing
    /\ ConvexCCW(Vertices(points))
    /\ Len(Vertices(points)) = 4
    /\ Len(face_indices) = 6

AllCollinear(pts) ==
    \A i, j, k \in 1..Len(pts) : CrossY(pts[i], pts[j], pts[k]) = 0

\* C4: a ring of at least 3 points, with at least 3 working vertices, whose
\* vertices are all collinear in the X/Z plane gives an empty index list.
C4_CollinearGivesNothing ==
    (triDone /\ Len(points) >= 3 /\ WorkingCount(points) >= 3
        /\ AllCollinear(points))
    => face_indices = <<>>

====
